---- MODULE Spec2Model ----
(***************************************************************************)
(* Weigh-station console: the WeighingConsole component (stability        *)
(* detector and ticket lifecycle), the ticket ledger kept in localStorage  *)
(* (storageService) and the plate identifier (geminiService).              *)
(*                                                                         *)
(* Text (plates, manual weight input) is a sequence of one-character       *)
(* strings, so that normalisation and parsing are computed character by    *)
(* character.  Money is held in cents: the rate 0.25 per kg is 25 cents.   *)
(* An absent optional field of a ticket is an absent record field.         *)
(***************************************************************************)
EXTENDS Integers, Sequences, FiniteSets, TLC

\* ------------------------------------------------------------------ bounds

\* Most tickets the ledger may hold (processInbound is not offered beyond it).
MaxTickets == 2

\* Most delayed print/reset timers that may be pending at once.
MaxPrintTimers == 2

\* Most identifier calls that may be in flight at once.
MaxInFlight == 2

\* Longest text, over the whole alphabet, put on the serial line.
MaxWireLen == 4

\* Most ScaleService objects constructed (a connect request is not offered
\* beyond it).
MaxServices == 2

\* Longest fragment a service may hold in its buffer when its port is opened
\* again (beyond it the open is only let fail).
MaxFragment == 0

\* ------------------------------------------------------------- characters

Lower == <<"a","b","c","d","e","f","g","h","i","j","k","l","m",
           "n","o","p","q","r","s","t","u","v","w","x","y","z">>

Upper == <<"A","B","C","D","E","F","G","H","I","J","K","L","M",
           "N","O","P","Q","R","S","T","U","V","W","X","Y","Z">>

Digits == <<"0","1","2","3","4","5","6","7","8","9">>

RangeOf(s) == { s[i] : i \in 1..Len(s) }

IndexIn(s, c) == CHOOSE i \in 1..Len(s) : s[i] = c

\* String.prototype.toUpperCase on one character.
ToUpperChar(c) == IF c \in RangeOf(Lower) THEN Upper[IndexIn(Lower, c)] ELSE c

\* String.prototype.toUpperCase.
ToUpperCase(s) == [i \in 1..Len(s) |-> ToUpperChar(s[i])]

\* The class [A-Z0-9] under the i flag.
IsAlnum(c) == c \in RangeOf(Lower) \cup RangeOf(Upper) \cup RangeOf(Digits)

\* s.replace(/[^A-Z0-9]/gi, '')
RECURSIVE StripNonAlnum(_)
StripNonAlnum(s) ==
  IF s = <<>> THEN <<>>
  ELSE IF IsAlnum(Head(s)) THEN <<Head(s)>> \o StripNonAlnum(Tail(s))
       ELSE StripNonAlnum(Tail(s))

DigitValue(c) == IndexIn(Digits, c) - 1

\* The value of the run of digits s starts with, continuing from acc.
RECURSIVE DigitsValue(_, _)
DigitsValue(s, acc) ==
  IF s = <<>> \/ Head(s) \notin RangeOf(Digits) THEN acc
  ELSE DigitsValue(Tail(s), acc * 10 + DigitValue(Head(s)))

\* parseFloat on an optionally signed run of digits: text after the digits is
\* ignored, text with no leading number is NaN (isNaN).  Inputs with a fraction
\* or an exponent are outside the input sets used here.
ParseFloat(s) ==
  LET neg  == s # <<>> /\ Head(s) = "-"
      body == IF s # <<>> /\ Head(s) \in {"-", "+"} THEN Tail(s) ELSE s
  IN IF body = <<>> \/ Head(body) \notin RangeOf(Digits)
     THEN [isNaN |-> TRUE, value |-> 0]
     ELSE [isNaN |-> FALSE,
           value |-> IF neg THEN 0 - DigitsValue(body, 0) ELSE DigitsValue(body, 0)]

\* parseFloat(x) || 0 : NaN and 0 are falsy.
ParseFloatOrZero(s) == IF ParseFloat(s).isNaN THEN 0 ELSE ParseFloat(s).value

\* ------------------------------------------------------------- input sets

\* The plate sentinel.
UNKNOWN == <<"U","N","K","N","O","W","N">>

\* Readings a weight source may deliver (kg).
Weights == {0, 15000, 20000}

\* What the operator may type into the manual weight field (a number input
\* without a min attribute: a sign is accepted).
ManualInputs == { <<"1","5","0","0","0">>, <<"-","5">> }

\* Plate texts the recognition model may answer with.
RawPlates == { <<>>, <<"a","b","-","1">> }

\* What the operator may type into the plate field of an inbound draft.
PlateEdits == { <<>>, <<"a","b","1">> }

\* The options of the material select box that are used here (the default one).
Materials == { "Mixed Metal" }

\* getScreenshot(): a data URL, or null.
NoFrame == "null"
Frame == "data:image/jpeg;base64,AAAA"
Screenshots == { Frame, NoFrame }

\* getScreenshot() at a confirm: the frame (a null frame, stored as '', is
\* outside the inputs used here).
ConfirmScreenshots == { Frame }

\* Answers of the recognition service to one generateContent call.
AiResponses ==
  { [kind |-> k, plate |-> <<>>, confidence |-> 0] : k \in {"throw", "notext", "noplate"} }
  \cup { [kind |-> "json", plate |-> p, confidence |-> 90] : p \in RawPlates }

\* --------------------------------------------------------- geminiService

\* identifyTruck without its catch block: a failure rejects the promise.
identifyTruckUncaught(resp) ==
  IF resp.kind # "json"
  THEN [raised |-> TRUE, licensePlate |-> UNKNOWN, confidence |-> 0]
  ELSE LET normalizedPlate == ToUpperCase(StripNonAlnum(resp.plate))
       IN [raised |-> FALSE,
           licensePlate |-> IF normalizedPlate = <<>> THEN UNKNOWN ELSE normalizedPlate,
           confidence |-> resp.confidence]

\* identifyTruck: the recognition result for one answer of the service.  Every
\* failure inside the try block (the call throws, the answer has no text, the
\* JSON has no licensePlate string) is caught and resolved as UNKNOWN with
\* confidence 0; raised says whether the promise rejects (it never does).
identifyTruck(resp) ==
  IF resp.kind # "json"
  THEN [raised |-> FALSE, licensePlate |-> UNKNOWN, confidence |-> 0]
  ELSE LET normalizedPlate == ToUpperCase(StripNonAlnum(resp.plate))
       IN [raised |-> FALSE,
           licensePlate |-> IF normalizedPlate = <<>> THEN UNKNOWN ELSE normalizedPlate,
           confidence |-> resp.confidence]

\* --------------------------------------------------------- storageService

OPEN == "OPEN"
CLOSED == "CLOSED"

\* tickets.findIndex(t => t.id === ticket.id), 0 for -1.
FindIndexById(tickets, id) ==
  IF \E i \in 1..Len(tickets) : tickets[i].id = id
  THEN CHOOSE i \in 1..Len(tickets) :
         /\ tickets[i].id = id
         /\ \A j \in 1..(i - 1) : tickets[j].id # id
  ELSE 0

\* saveTicket that pushes without looking for the id.
saveTicketAlwaysPushes(tickets, ticket) == Append(tickets, ticket)

\* saveTicket: the stored list after the upsert of ticket.
saveTicket(tickets, ticket) ==
  LET existingIndex == FindIndexById(tickets, ticket.id)
  IN IF existingIndex > 0
     THEN [tickets EXCEPT ![existingIndex] = ticket]
     ELSE Append(tickets, ticket)

\* findOpenTicketByPlate without the status test.
findTicketByPlateAnyStatus(tickets, plate) ==
  IF plate = UNKNOWN THEN <<>>
  ELSE IF \E i \in 1..Len(tickets) : tickets[i].licensePlate = plate
       THEN << tickets[CHOOSE i \in 1..Len(tickets) :
                 /\ tickets[i].licensePlate = plate
                 /\ \A j \in 1..(i - 1) : tickets[j].licensePlate # plate] >>
       ELSE <<>>

\* findOpenTicketByPlate without the test for the sentinel plate.
findOpenTicketByPlateNoSentinel(tickets, plate) ==
  IF \E i \in 1..Len(tickets) :
       tickets[i].status = OPEN /\ tickets[i].licensePlate = plate
  THEN << tickets[CHOOSE i \in 1..Len(tickets) :
            /\ tickets[i].status = OPEN /\ tickets[i].licensePlate = plate
            /\ \A j \in 1..(i - 1) :
                 ~(tickets[j].status = OPEN /\ tickets[j].licensePlate = plate)] >>
  ELSE <<>>

\* findOpenTicketByPlate returning the last match instead of the first.
findLastOpenTicketByPlate(tickets, plate) ==
  IF plate = UNKNOWN THEN <<>>
  ELSE IF \E i \in 1..Len(tickets) :
            tickets[i].status = OPEN /\ tickets[i].licensePlate = plate
       THEN << tickets[CHOOSE i \in 1..Len(tickets) :
                 /\ tickets[i].status = OPEN /\ tickets[i].licensePlate = plate
                 /\ \A j \in (i + 1)..Len(tickets) :
                      ~(tickets[j].status = OPEN /\ tickets[j].licensePlate = plate)] >>
       ELSE <<>>

\* findOpenTicketByPlate: <<t>> for the first OPEN ticket with that plate, <<>>
\* for undefined.
findOpenTicketByPlate(tickets, plate) ==
  IF plate = UNKNOWN THEN <<>>
  ELSE IF \E i \in 1..Len(tickets) :
            tickets[i].status = OPEN /\ tickets[i].licensePlate = plate
       THEN << tickets[CHOOSE i \in 1..Len(tickets) :
                 /\ tickets[i].status = OPEN /\ tickets[i].licensePlate = plate
                 /\ \A j \in 1..(i - 1) :
                      ~(tickets[j].status = OPEN /\ tickets[j].licensePlate = plate)] >>
       ELSE <<>>

\* ------------------------------------------------------------------ state

VARIABLES
  currentWeight,     \* useState currentWeight
  isStable,          \* useState isStable
  stabilityTimer,    \* the number of 800 ms timeouts of the stability effect
                     \* that are pending
  useManualWeight,   \* useState useManualWeight
  manualWeight,      \* useState manualWeight (text)
  isConnected,       \* useState isConnected
  isSimulating,      \* useState isSimulating
  scaleService,      \* scaleService.current: 0 for null, or the place in
                     \* services of the object it holds
  services,          \* the ScaleService objects constructed so far, oldest
                     \* first: port ("null", "closed" for a port that is not
                     \* open, "open"), reader ("null", "locked" while the read
                     \* loop holds it, "released"), isReading, and phase, the
                     \* await a connect() call is at ("requestPort", "open",
                     \* "idle" when none is in flight)
  serviceCall,       \* what the latest step of a connect() or disconnect()
                     \* call did: the call's name, the transport operations
                     \* it started, and how the call stands ("pending",
                     \* "resolved true", "resolved false", "resolved",
                     \* "rejected")
  mounted,           \* the console component is mounted
  processing,        \* useState processing
  identInFlight,     \* identifyTruck calls awaiting their answer
  detectedPlate,     \* useState detectedPlate
  mode,              \* useState mode
  matchedTicket,     \* useState matchedTicket: <<>> for null, <<t>> otherwise
  material,          \* useState material
  lastPrintedTicket, \* useState lastPrintedTicket: <<>> for null
  printTimers,       \* pending 500 ms print/reset timeouts, oldest first; each holds
                     \* the useManualWeight its resetConsole closure captured
  ledger,            \* the ticket list stored under STORAGE_KEY
  nextId,            \* the id crypto.randomUUID gives the next ticket that is
                     \* stored (an id drawn for a ticket that is never stored
                     \* is lost with it)
  clock,             \* the latest value of Date.now() that reached the ledger
  uiEffect,          \* what the latest step did towards the operator: the
                     \* alert() or print() call it made, "throw: save" for an
                     \* exception that left a confirm handler, "cancel" for a
                     \* Cancel button's resetConsole, "none" otherwise
  captureWeight,     \* history: <<w>>, the usable weight when the transaction in
                     \* progress, or the inbound ticket created last, was
                     \* captured; <<>> otherwise
  buffer,            \* ScaleService.buffer
  wire,              \* the text the serial line has yet to deliver
  delivered,         \* history: the text the read loop has received so far
  chunks,            \* history: the number of non-empty chunks received so far
  emitted            \* history: the weights handed to onWeightUpdate so far

vars == << currentWeight, isStable, stabilityTimer, useManualWeight, manualWeight,
           isConnected, isSimulating, scaleService, services, serviceCall,
           mounted, processing, identInFlight, detectedPlate, mode, matchedTicket, material,
           lastPrintedTicket, printTimers, ledger, nextId, clock,
           uiEffect, captureWeight, buffer, wire, delivered, chunks, emitted >>

framerVars == << buffer, wire, delivered, chunks, emitted >>

\* The weight sources with the line that feeds them, and the life of the
\* component that holds them.
scaleVars == << isConnected, isSimulating, scaleService, services, serviceCall,
               mounted, framerVars >>

stabilityVars == << currentWeight, isStable, stabilityTimer >>

manualVars == << useManualWeight, manualWeight >>

draftVars == << processing, identInFlight, detectedPlate, mode, matchedTicket >>

printVars == << lastPrintedTicket, printTimers >>

storeVars == << ledger, nextId, clock >>

\* The state after the component has mounted: the stability effect has run once
\* (isStable false, timeout armed) and the ledger is that of a fresh installation.
ConsoleMounted ==
  /\ currentWeight = 0
  /\ isStable = FALSE
  /\ stabilityTimer = 1
  /\ useManualWeight = FALSE
  /\ manualWeight = <<>>
  /\ isConnected = FALSE
  /\ isSimulating = FALSE
  /\ scaleService = 0
  /\ services = <<>>
  /\ serviceCall = [name |-> "none", ops |-> {}, outcome |-> "none"]
  /\ mounted = TRUE
  /\ processing = FALSE
  /\ identInFlight = 0
  /\ detectedPlate = <<>>
  /\ mode = "IDLE"
  /\ matchedTicket = <<>>
  /\ material = "Mixed Metal"
  /\ lastPrintedTicket = <<>>
  /\ printTimers = <<>>
  /\ ledger = <<>>
  /\ nextId = 1
  /\ clock = 0
  /\ uiEffect = "none"
  /\ captureWeight = <<>>

\* The mounted console; no service has been created, so nothing is on the line.
Init ==
  /\ ConsoleMounted
  /\ buffer = <<>>
  /\ wire = <<>>
  /\ delivered = <<>>
  /\ chunks = 0
  /\ emitted = <<>>

\* ----------------------------------------------------- stability detector

\* clearTimeout that clears nothing.
ClearedNone(pending) == 0

\* The timeouts clearTimeout(stabilityTimeoutRef.current) clears: the ref holds
\* the timeout created last, so one pending timeout at most.
Cleared(pending) == IF pending > 0 THEN 1 ELSE 0

\* An effect that runs after every call of a setter, changed value or not.
EffectRunsOnEveryCall(w, m) == TRUE

\* The stability effect (dependencies currentWeight and useManualWeight) as it
\* leaves isStable and the timeouts when the render ends with weight w and
\* manual flag m.  It runs only when a dependency changed; the previous run's
\* cleanup clears the pending timeout first.
EffectRuns(w, m) == w # currentWeight \/ m # useManualWeight

\* An effect that never calls setIsStable(false).
StableAfterNoReset(w, m) ==
  IF EffectRuns(w, m) /\ m THEN TRUE ELSE isStable

\* An effect without the manual entry branch.
StableAfterIgnoresManual(w, m) ==
  IF ~EffectRuns(w, m) THEN isStable ELSE FALSE

StableAfter(w, m) ==
  IF ~EffectRuns(w, m) THEN isStable
  ELSE IF m THEN TRUE ELSE FALSE

TimerAfter(w, m) ==
  IF ~EffectRuns(w, m) THEN stabilityTimer
  ELSE stabilityTimer - Cleared(stabilityTimer) + (IF m THEN 0 ELSE 1)

\* setCurrentWeight(w) followed by the render and its effect.
SetCurrentWeight(w) ==
  /\ currentWeight' = w
  /\ isStable' = StableAfter(w, useManualWeight)
  /\ stabilityTimer' = TimerAfter(w, useManualWeight)

\* setCurrentWeight called with each of ws in turn within one task.  The calls
\* are rendered together (the effect sees the last value only) or one by one
\* (the effect runs if any value differs from the one before it), as the React
\* root decides; either way the last value stays.
SetCurrentWeights(ws) ==
  LET last == ws[Len(ws)]
      seen == { last } \cup { ws[k] : k \in { j \in 1..Len(ws) : ws[j] # currentWeight } }
  IN /\ currentWeight' = last
     /\ \E v \in seen :
          /\ isStable' = StableAfter(v, useManualWeight)
          /\ stabilityTimer' = TimerAfter(v, useManualWeight)

\* An 800 ms timeout fires.
StabilityTimeout ==
  /\ stabilityTimer > 0
  /\ isStable' = TRUE
  /\ stabilityTimer' = stabilityTimer - 1
  /\ uiEffect' = "none"
  /\ UNCHANGED << currentWeight, manualVars, scaleVars, draftVars, material,
                  printVars, storeVars, captureWeight >>

\* The manual entry checkbox is clicked.
ToggleManualEntry ==
  LET checked == ~useManualWeight
  IN /\ mounted
     /\ useManualWeight' = checked
     /\ manualWeight' = IF checked THEN <<"0">> ELSE manualWeight
     /\ isStable' = StableAfter(currentWeight, checked)
     /\ stabilityTimer' = TimerAfter(currentWeight, checked)
     /\ uiEffect' = "none"
     /\ UNCHANGED << currentWeight, scaleVars, draftVars, material, printVars,
                     storeVars, captureWeight >>

\* The operator types into the manual weight field (rendered in manual mode).
TypeManualWeight(text) ==
  /\ mounted
  /\ useManualWeight
  /\ manualWeight' = text
  /\ uiEffect' = "none"
  /\ UNCHANGED << useManualWeight, stabilityVars, scaleVars, draftVars, material,
                  printVars, storeVars, captureWeight >>

\* The component is torn down: the cleanup of the stability effect clears the
\* pending timeout and the cleanup of the simulation effect its interval.  No
\* cleanup disconnects a service.
Unmount ==
  /\ mounted
  /\ mounted' = FALSE
  /\ stabilityTimer' = stabilityTimer - Cleared(stabilityTimer)
  /\ uiEffect' = "none"
  /\ UNCHANGED << currentWeight, isStable, manualVars, isConnected, isSimulating,
                  scaleService, services, serviceCall, framerVars, draftVars,
                  material, printVars, storeVars, captureWeight >>

\* ------------------------------------------------------------ ScaleService

\* new ScaleService(callback): the fields after the constructor.
NewScaleService ==
  [ port |-> "null", reader |-> "null", isReading |-> FALSE, phase |-> "idle" ]

\* connect() up to its first await: it throws where the platform has no serial
\* support, otherwise it asks for a port.
connectCalled(s, supported) ==
  IF ~supported
  THEN [ service |-> s, ops |-> {}, outcome |-> "rejected" ]
  ELSE [ service |-> [s EXCEPT !.phase = "requestPort"],
         ops |-> { "requestPort" }, outcome |-> "pending" ]

\* connect() when the device request settles: the port is kept and its open()
\* started, or the rejection is caught and the call returns false.
connectPortSettled(s, granted) ==
  IF granted
  THEN [ service |-> [s EXCEPT !.port = IF s.port = "open" THEN "open" ELSE "closed",
                               !.phase = "open"],
         ops |-> { "open" }, outcome |-> "pending" ]
  ELSE [ service |-> [s EXCEPT !.phase = "idle"], ops |-> {},
         outcome |-> "resolved false" ]

\* connect() when open() settles: isReading is set, readLoop takes the reader
\* and the call returns true, or the rejection is caught and the call returns
\* false with the port object kept.
connectOpenSettled(s, opened) ==
  IF opened
  THEN [ service |-> [s EXCEPT !.port = "open", !.isReading = TRUE,
                               !.reader = "locked", !.phase = "idle"],
         ops |-> {}, outcome |-> "resolved true" ]
  ELSE [ service |-> [s EXCEPT !.phase = "idle"], ops |-> {},
         outcome |-> "resolved false" ]

\* The reader block of disconnect() with a cancel() that leaves the read loop
\* running.
cancelReaderKeepsLoop(s, pipeFails) ==
  IF s.reader = "null" THEN [ service |-> s, ops |-> {}, raised |-> FALSE ]
  ELSE IF s.reader = "released"
  THEN [ service |-> s, ops |-> { "cancel" }, raised |-> TRUE ]
  ELSE [ service |-> s, ops |-> { "cancel" }, raised |-> FALSE ]

\* The reader block of disconnect(): a reader is cancelled, which ends the read
\* loop (its finally releases the reader; cancel() of a reader already released
\* rejects), and the failure of the decoding pipe is swallowed.
cancelReader(s, pipeFails) ==
  IF s.reader = "null" THEN [ service |-> s, ops |-> {}, raised |-> FALSE ]
  ELSE IF s.reader = "released"
  THEN [ service |-> s, ops |-> { "cancel" }, raised |-> TRUE ]
  ELSE [ service |-> [s EXCEPT !.reader = "released"], ops |-> { "cancel" },
         raised |-> FALSE ]

\* The port block of disconnect(): a port is closed and forgotten (close() of a
\* port that is not open rejects, and the port is kept).
closePort(s) ==
  IF s.port = "null" THEN [ service |-> s, ops |-> {}, raised |-> FALSE ]
  ELSE IF s.port = "open"
  THEN [ service |-> [s EXCEPT !.port = "null"], ops |-> { "close" }, raised |-> FALSE ]
  ELSE [ service |-> s, ops |-> { "close" }, raised |-> TRUE ]

\* disconnect(): isReading is cleared, then the reader block, then the port
\* block; a rejection ends the call where it happens.
disconnect(s, pipeFails) ==
  LET c == cancelReader([s EXCEPT !.isReading = FALSE], pipeFails)
      p == closePort(c.service)
  IN IF c.raised
     THEN [ service |-> c.service, ops |-> c.ops, outcome |-> "rejected" ]
     ELSE [ service |-> p.service, ops |-> c.ops \cup p.ops,
            outcome |-> IF p.raised THEN "rejected" ELSE "resolved" ]

\* The step r of a call, named name, on the service at place i.
ServiceStep(i, r, name) ==
  /\ services' = [services EXCEPT ![i] = r.service]
  /\ serviceCall' = [ name |-> name, ops |-> r.ops, outcome |-> r.outcome ]

\* ----------------------------------------------------------- weight sources

\* The Connect Serial and Simulate buttons are rendered.
SourceButtonsRendered ==
  mounted /\ ~isConnected /\ ~isSimulating /\ ~useManualWeight

\* toggleSimulation: the service held, if any, is disconnected (the promise is
\* not awaited) and dropped.
ToggleSimulation ==
  /\ SourceButtonsRendered
  /\ isSimulating' = ~isSimulating
  /\ isConnected' = FALSE
  /\ \E pipeFails \in BOOLEAN :
       IF scaleService # 0
       THEN ServiceStep(scaleService, disconnect(services[scaleService], pipeFails),
                        "disconnect")
       ELSE UNCHANGED << services, serviceCall >>
  /\ scaleService' = 0
  /\ SetCurrentWeight(0)
  /\ uiEffect' = "none"
  /\ UNCHANGED << mounted, manualVars, draftVars, material, printVars, storeVars,
                  captureWeight, framerVars >>
\* A simulation that pauses while a transaction is in progress.
SimulationTickSuspended(w) ==
  /\ ~processing
  /\ mode = "IDLE"
  /\ mounted
  /\ isSimulating
  /\ SetCurrentWeight(w)
  /\ uiEffect' = "none"
  /\ UNCHANGED << manualVars, scaleVars, draftVars, material, printVars, storeVars, captureWeight >>

\* One tick of the simulation interval: the weight stays or drifts to another
\* value (the target and the jitter are random).
SimulationTick(w) ==
  /\ mounted
  /\ isSimulating
  /\ SetCurrentWeight(w)
  /\ uiEffect' = "none"
  /\ UNCHANGED << manualVars, scaleVars, draftVars, material, printVars, storeVars, captureWeight >>

\* ------------------------------------------------------ ticket lifecycle

\* const rate = 0.25, in cents per kg.
RateCentsPerKg == 25

\* Math.abs left out.
AbsOmitted(x) == x

\* Math.abs
Abs(x) == IF x < 0 THEN 0 - x ELSE x

\* webcamRef.current is set: the Webcam element is rendered unconditionally.
WebcamMounted == TRUE

\* useManualWeight ? parseFloat(manualWeight) || 0 : currentWeight
EffectiveWeight ==
  IF useManualWeight THEN ParseFloatOrZero(manualWeight) ELSE currentWeight

\* The capture button rendered in every mode.
CaptureButtonAlwaysRendered == TRUE

\* The capture button is rendered: not processing, mode IDLE.
CaptureButtonRendered == mounted /\ ~processing /\ mode = "IDLE"

\* The part of the button's disabled attribute the handler does not repeat: a
\* weight source or manual entry is needed.
CaptureSourceAvailable == isConnected \/ isSimulating \/ useManualWeight

\* The handler without its stability test.
UsableWeightUnchecked == TRUE

\* The handler's own test for a usable weight (the alert branch otherwise).
UsableWeight == isStable \/ useManualWeight

\* resetConsole, whose closure holds the useManualWeight of the render that
\* created it.
ResetConsole(manualInClosure) ==
  /\ mode' = "IDLE"
  /\ detectedPlate' = <<>>
  /\ matchedTicket' = <<>>
  /\ manualWeight' = IF manualInClosure THEN <<"0">> ELSE <<>>
\* handleCapture without its finally block: a failed screenshot leaves the
\* processing flag set.
HandleCaptureNoFinally ==
  /\ CaptureButtonRendered
  /\ CaptureSourceAvailable
  /\ WebcamMounted
  /\ identInFlight < MaxInFlight
  /\ IF ~UsableWeight
     THEN /\ uiEffect' = "alert: unstable"
          /\ UNCHANGED << draftVars, captureWeight >>
     ELSE /\ mode' = "IDLE"
          /\ matchedTicket' = <<>>
          /\ detectedPlate' = <<>>
          /\ \E imageSrc \in Screenshots :
               IF imageSrc = NoFrame
               THEN /\ processing' = TRUE
                    /\ identInFlight' = identInFlight
                    /\ uiEffect' = "alert: error"
                    /\ captureWeight' = <<>>
               ELSE /\ processing' = TRUE
                    /\ identInFlight' = identInFlight + 1
                    /\ uiEffect' = "none"
                    /\ captureWeight' = << EffectiveWeight >>
  /\ UNCHANGED << stabilityVars, manualVars, scaleVars, material, printVars, storeVars >>

\* handleCapture up to its await.  An unusable weight is answered with the
\* alert and nothing else; a failed screenshot throws, so the catch and finally
\* blocks run in the same step; otherwise identifyTruck is called.
HandleCapture ==
  /\ CaptureButtonRendered
  /\ CaptureSourceAvailable
  /\ WebcamMounted
  /\ identInFlight < MaxInFlight
  /\ IF ~UsableWeight
     THEN /\ uiEffect' = "alert: unstable"
          /\ UNCHANGED << draftVars, captureWeight >>
     ELSE /\ mode' = "IDLE"
          /\ matchedTicket' = <<>>
          /\ detectedPlate' = <<>>
          /\ \E imageSrc \in Screenshots :
               IF imageSrc = NoFrame
               THEN /\ processing' = FALSE
                    /\ identInFlight' = identInFlight
                    /\ uiEffect' = "alert: error"
                    /\ captureWeight' = <<>>
               ELSE /\ processing' = TRUE
                    /\ identInFlight' = identInFlight + 1
                    /\ uiEffect' = "none"
                    /\ captureWeight' = << EffectiveWeight >>
  /\ UNCHANGED << stabilityVars, manualVars, scaleVars, material, printVars, storeVars >>

\* handleCapture after its await: identifyTruck has settled for the answer resp.
IdentifySettles(resp) ==
  LET recognition == identifyTruck(resp)
      openTicket  == findOpenTicketByPlate(ledger, recognition.licensePlate)
  IN /\ identInFlight > 0
     /\ identInFlight' = identInFlight - 1
     /\ processing' = FALSE
     /\ IF recognition.raised
        THEN /\ uiEffect' = "alert: error"
             /\ UNCHANGED << detectedPlate, mode, matchedTicket >>
        ELSE /\ uiEffect' = "none"
             /\ detectedPlate' = recognition.licensePlate
             /\ IF openTicket # <<>>
                THEN mode' = "OUTBOUND" /\ matchedTicket' = openTicket
                ELSE mode' = "INBOUND" /\ matchedTicket' = matchedTicket
     /\ UNCHANGED << stabilityVars, manualVars, scaleVars, material, printVars,
                     storeVars, captureWeight >>

\* The inbound draft panel is rendered.
InboundPanelRendered == mounted /\ ~processing /\ mode = "INBOUND"

\* The outbound draft panel is rendered.
OutboundPanelRendered ==
  mounted /\ ~processing /\ mode = "OUTBOUND" /\ matchedTicket # <<>>

\* The operator edits the plate of the inbound draft.
EditPlate(text) ==
  /\ InboundPanelRendered
  /\ detectedPlate' = ToUpperCase(text)
  /\ uiEffect' = "none"
  /\ UNCHANGED << processing, identInFlight, mode, matchedTicket, stabilityVars,
                  manualVars, scaleVars, material, printVars, storeVars,
                  captureWeight >>

\* The operator picks a material in the inbound draft.
SetMaterial(m) ==
  /\ InboundPanelRendered
  /\ material' = m
  /\ uiEffect' = "none"
  /\ UNCHANGED << draftVars, stabilityVars, manualVars, scaleVars, printVars,
                  storeVars, captureWeight >>

\* processInbound's ticket with an id that is not fresh.
NewTicketReusedId(id, now, imageSrc) ==
  [ id            |-> 1,
    licensePlate  |-> IF detectedPlate = <<>> THEN UNKNOWN ELSE detectedPlate,
    materialType  |-> material,
    inboundWeight |-> EffectiveWeight,
    inboundTime   |-> now,
    inboundImage  |-> IF imageSrc = NoFrame THEN "" ELSE imageSrc,
    status        |-> OPEN ]

\* processInbound's ticket with the weight that was current at capture.
NewTicketCaptureWeight(id, now, imageSrc) ==
  [ id            |-> id,
    licensePlate  |-> IF detectedPlate = <<>> THEN UNKNOWN ELSE detectedPlate,
    materialType  |-> material,
    inboundWeight |-> IF captureWeight # <<>> THEN captureWeight[1] ELSE EffectiveWeight,
    inboundTime   |-> now,
    inboundImage  |-> IF imageSrc = NoFrame THEN "" ELSE imageSrc,
    status        |-> OPEN ]

\* The ticket processInbound builds.
NewTicket(id, now, imageSrc) ==
  [ id            |-> id,
    licensePlate  |-> IF detectedPlate = <<>> THEN UNKNOWN ELSE detectedPlate,
    materialType  |-> material,
    inboundWeight |-> EffectiveWeight,
    inboundTime   |-> now,
    inboundImage  |-> IF imageSrc = NoFrame THEN "" ELSE imageSrc,
    status        |-> OPEN ]

\* processInbound (CREATE TICKET).
ProcessInbound ==
  /\ InboundPanelRendered
  /\ WebcamMounted
  /\ Len(ledger) < MaxTickets
  /\ \E imageSrc \in ConfirmScreenshots :
       ledger' = saveTicket(ledger, NewTicket(nextId, clock + 1, imageSrc))
  /\ nextId' = nextId + 1
  /\ clock' = clock + 1
  /\ ResetConsole(useManualWeight)
  /\ uiEffect' = "none"
  /\ UNCHANGED << processing, identInFlight, useManualWeight, stabilityVars,
                  scaleVars, material, printVars, captureWeight >>

\* A confirm whose saveTicket call throws, with the statements that follow the
\* call run all the same (as in a finally block).
SaveThrowsThenResets ==
  /\ ResetConsole(useManualWeight)
  /\ printTimers' = IF mode = "OUTBOUND" /\ Len(printTimers) < MaxPrintTimers
                    THEN Append(printTimers, useManualWeight)
                    ELSE printTimers
  /\ UNCHANGED << processing, identInFlight, useManualWeight, lastPrintedTicket,
                  storeVars >>

\* What a confirm leaves when its saveTicket call throws (JSON.parse of the
\* stored text in getTickets, or localStorage.setItem, which stores all of the
\* new text or none of it): the exception leaves the handler, so no statement
\* after the call runs and no state is set.
SaveThrows ==
  UNCHANGED << draftVars, manualVars, printVars, storeVars >>

\* processInbound when saveTicket throws.
ProcessInboundSaveThrows ==
  /\ InboundPanelRendered
  /\ WebcamMounted
  /\ SaveThrows
  /\ uiEffect' = "throw: save"
  /\ UNCHANGED << stabilityVars, scaleVars, material, captureWeight >>

\* The fields processOutbound adds to the matched ticket t, for an outbound
\* weight, a cost and a status.
ClosedWith(t, now, imageSrc, outWeight, net, cost, status) ==
  [ id             |-> t.id,
    licensePlate   |-> t.licensePlate,
    materialType   |-> t.materialType,
    inboundWeight  |-> t.inboundWeight,
    inboundTime    |-> t.inboundTime,
    inboundImage   |-> t.inboundImage,
    outboundWeight |-> outWeight,
    outboundTime   |-> now,
    outboundImage  |-> IF imageSrc = NoFrame THEN "" ELSE imageSrc,
    netWeight      |-> net,
    ratePerKg      |-> RateCentsPerKg,
    totalCost      |-> cost,
    status         |-> status ]

\* processOutbound's ticket with the cost taken on the outbound weight.
UpdatedTicketCostOnGross(t, now, imageSrc) ==
  LET outWeight == EffectiveWeight
      net       == Abs(t.inboundWeight - outWeight)
  IN ClosedWith(t, now, imageSrc, outWeight, net, outWeight * RateCentsPerKg, CLOSED)

\* processOutbound's ticket with the status left as it was.
UpdatedTicketStatusKept(t, now, imageSrc) ==
  LET outWeight == EffectiveWeight
      net       == Abs(t.inboundWeight - outWeight)
  IN ClosedWith(t, now, imageSrc, outWeight, net, net * RateCentsPerKg, t.status)

\* processOutbound's ticket with the weight that was current at capture.
UpdatedTicketCaptureWeight(t, now, imageSrc) ==
  LET outWeight == IF captureWeight # <<>> THEN captureWeight[1] ELSE EffectiveWeight
      net       == Abs(t.inboundWeight - outWeight)
  IN ClosedWith(t, now, imageSrc, outWeight, net, net * RateCentsPerKg, CLOSED)

\* processOutbound's ticket with the inbound time overwritten by the time of
\* the close.
UpdatedTicketInboundTimeLost(t, now, imageSrc) ==
  LET outWeight == EffectiveWeight
      net       == Abs(t.inboundWeight - outWeight)
  IN [ ClosedWith(t, now, imageSrc, outWeight, net, net * RateCentsPerKg, CLOSED)
         EXCEPT !.inboundTime = now ]

\* The ticket processOutbound builds from the matched ticket t.
UpdatedTicket(t, now, imageSrc) ==
  LET outWeight == EffectiveWeight
      net       == Abs(t.inboundWeight - outWeight)
      cost      == net * RateCentsPerKg
  IN ClosedWith(t, now, imageSrc, outWeight, net, cost, CLOSED)

\* processOutbound that prints at once and arms the timeout as well.
ProcessOutboundPrintsTwice ==
  /\ OutboundPanelRendered
  /\ WebcamMounted
  /\ Len(printTimers) < MaxPrintTimers
  /\ \E imageSrc \in ConfirmScreenshots :
       LET updatedTicket == UpdatedTicket(matchedTicket[1], clock + 1, imageSrc)
       IN /\ ledger' = saveTicket(ledger, updatedTicket)
          /\ lastPrintedTicket' = << updatedTicket >>
  /\ clock' = clock + 1
  /\ printTimers' = Append(printTimers, useManualWeight)
  /\ uiEffect' = "print"
  /\ UNCHANGED << draftVars, stabilityVars, manualVars, scaleVars, material, nextId, captureWeight >>

\* processOutbound (PRINT TICKET): saves the closed ticket and arms the 500 ms
\* timeout that prints and resets; the draft stays on screen until it fires.
ProcessOutbound ==
  /\ OutboundPanelRendered
  /\ WebcamMounted
  /\ Len(printTimers) < MaxPrintTimers
  /\ \E imageSrc \in ConfirmScreenshots :
       LET updatedTicket == UpdatedTicket(matchedTicket[1], clock + 1, imageSrc)
       IN /\ ledger' = saveTicket(ledger, updatedTicket)
          /\ lastPrintedTicket' = << updatedTicket >>
  /\ clock' = clock + 1
  /\ printTimers' = Append(printTimers, useManualWeight)
  /\ uiEffect' = "none"
  /\ UNCHANGED << draftVars, stabilityVars, manualVars, scaleVars, material, nextId, captureWeight >>

\* processOutbound when saveTicket throws.
ProcessOutboundSaveThrows ==
  /\ OutboundPanelRendered
  /\ WebcamMounted
  /\ SaveThrows
  /\ uiEffect' = "throw: save"
  /\ UNCHANGED << stabilityVars, scaleVars, material, captureWeight >>

\* The 500 ms timeout of a processOutbound fires: print, then resetConsole.
PrintTimeout ==
  /\ printTimers # <<>>
  /\ printTimers' = Tail(printTimers)
  /\ uiEffect' = "print"
  /\ ResetConsole(Head(printTimers))
  /\ captureWeight' = IF processing THEN captureWeight ELSE <<>>
  /\ UNCHANGED << processing, identInFlight, useManualWeight, stabilityVars,
                  scaleVars, material, lastPrintedTicket, storeVars >>

\* A Cancel button that confirms the draft it should discard.
CancelSavesDraft ==
  /\ InboundPanelRendered \/ OutboundPanelRendered
  /\ Len(ledger) < MaxTickets
  /\ ledger' = saveTicket(ledger, NewTicket(nextId, clock, Frame))
  /\ ResetConsole(useManualWeight)
  /\ captureWeight' = <<>>
  /\ uiEffect' = "cancel"
  /\ UNCHANGED << processing, identInFlight, useManualWeight, stabilityVars,
                  scaleVars, material, printVars, nextId, clock >>

\* Cancel in either draft panel: resetConsole.
Cancel ==
  /\ InboundPanelRendered \/ OutboundPanelRendered
  /\ ResetConsole(useManualWeight)
  /\ captureWeight' = <<>>
  /\ uiEffect' = "cancel"
  /\ UNCHANGED << processing, identInFlight, useManualWeight, stabilityVars,
                  scaleVars, material, printVars, storeVars >>

\* ---------------------------------------------------------- specification

\* The steps of a transaction, whatever supplies the weight.
Transaction ==
  \/ HandleCapture
  \/ \E resp \in AiResponses : IdentifySettles(resp)
  \/ \E text \in PlateEdits : EditPlate(text)
  \/ \E m \in Materials : SetMaterial(m)
  \/ ProcessInbound
  \/ ProcessInboundSaveThrows
  \/ ProcessOutbound
  \/ ProcessOutboundSaveThrows
  \/ PrintTimeout
  \/ Cancel

\* The console fed by the simulation source (manual entry stays off, no serial
\* session is requested).
Next ==
  \/ StabilityTimeout
  \/ ToggleSimulation
  \/ \E w \in Weights : SimulationTick(w)
  \/ Transaction

Spec == Init /\ [][Next]_vars

\* The console operated with manual entry, no weight source started.
NextManual ==
  \/ StabilityTimeout
  \/ ToggleManualEntry
  \/ \E text \in ManualInputs : TypeManualWeight(text)
  \/ Transaction

SpecManual == Init /\ [][NextManual]_vars

\* ------------------------------------------------ storageService on its own

\* Plates of the tickets handed to saveTicket and asked of findOpenTicketByPlate.
StoragePlates == { UNKNOWN, <<"A", "B", "1">>, <<"A", "B">> }

\* The OPEN tickets with a given id that callers hand to saveTicket.
StorageOpenTickets(id) ==
  { [ id            |-> id,
      licensePlate  |-> p,
      materialType  |-> "Mixed Metal",
      inboundWeight |-> w,
      inboundTime   |-> 1,
      inboundImage  |-> Frame,
      status        |-> OPEN ] : p \in StoragePlates, w \in Weights \ {0} }

\* The same tickets, closed at weight 15000.
StorageClosedTickets(id) ==
  { ClosedWith(t, 2, Frame, 15000, Abs(t.inboundWeight - 15000),
               Abs(t.inboundWeight - 15000) * RateCentsPerKg, CLOSED) :
      t \in StorageOpenTickets(id) }

\* The ids of the stored tickets.
StoredIds == { ledger[i].id : i \in 1..Len(ledger) }

\* saveTicket of a ticket that is new to the store: tickets are created OPEN,
\* under a fresh id.
StoreNew(ticket) ==
  /\ Len(ledger) < MaxTickets
  /\ ticket \in StorageOpenTickets(nextId)
  /\ ledger' = saveTicket(ledger, ticket)
  /\ nextId' = nextId + 1
  /\ UNCHANGED << stabilityVars, manualVars, scaleVars, draftVars, material,
                  printVars, clock, uiEffect, captureWeight >>

\* saveTicket of a ticket whose id is stored already, with any fields.
StoreExisting(ticket) ==
  /\ ticket.id \in StoredIds
  /\ ledger' = saveTicket(ledger, ticket)
  /\ UNCHANGED << stabilityVars, manualVars, scaleVars, draftVars, material,
                  printVars, nextId, clock, uiEffect, captureWeight >>

\* Every ticket a caller may hand to saveTicket in the current state.
StorageInputs ==
  UNION { StorageOpenTickets(id) \cup StorageClosedTickets(id) :
            id \in StoredIds \cup {nextId} }

NextStorage ==
  \/ \E ticket \in StorageInputs : StoreNew(ticket)
  \/ \E ticket \in StorageInputs : StoreExisting(ticket)

\* The storage service driven by arbitrary callers.
SpecStorage == Init /\ [][NextStorage]_vars

\* ---------------------------------------------------- ScaleService framing

\* The class [\r\n].
Terminators == { "\r", "\n" }

\* White space that String.prototype.trim removes (terminators never reach it:
\* the split has removed them).
Whitespace == { " ", "\t" }

\* s.split(/[\r\n]+/), read left to right: cur is the piece being read, inRun
\* tells that the character before was a terminator (the run goes on).
RECURSIVE SplitFrom(_, _, _)
SplitFrom(s, cur, inRun) ==
  IF s = <<>> THEN << cur >>
  ELSE IF Head(s) \in Terminators
       THEN IF inRun THEN SplitFrom(Tail(s), <<>>, TRUE)
            ELSE << cur >> \o SplitFrom(Tail(s), <<>>, TRUE)
       ELSE SplitFrom(Tail(s), Append(cur, Head(s)), FALSE)

SplitLines(s) == SplitFrom(s, <<>>, FALSE)

\* line.trim().length > 0
TrimmedNotEmpty(line) == \E i \in 1..Len(line) : line[i] \notin Whitespace

\* The longest run of digits s starts with.
RECURSIVE DigitRun(_)
DigitRun(s) ==
  IF s = <<>> \/ Head(s) \notin RangeOf(Digits) THEN <<>>
  ELSE << Head(s) >> \o DigitRun(Tail(s))

\* rawString.match(/(\d+(\.\d+)?)/): << match[0] >>, or <<>> for null.  The
\* match starts at the first digit, takes the digits greedily and then a dot
\* with the digits after it when there is at least one.
RECURSIVE MatchNumber(_)
MatchNumber(s) ==
  IF s = <<>> THEN <<>>
  ELSE IF Head(s) \in RangeOf(Digits)
       THEN LET whole == DigitRun(s)
                rest  == SubSeq(s, Len(whole) + 1, Len(s))
                frac  == IF rest # <<>> /\ Head(rest) = "."
                         THEN DigitRun(Tail(rest)) ELSE <<>>
            IN << IF frac # <<>> THEN whole \o << "." >> \o frac ELSE whole >>
       ELSE MatchNumber(Tail(s))

\* Digits without the zeros they end with.
RECURSIVE StripTrailingZeros(_)
StripTrailingZeros(ds) ==
  IF ds # <<>> /\ ds[Len(ds)] = "0"
  THEN StripTrailingZeros(SubSeq(ds, 1, Len(ds) - 1))
  ELSE ds

\* parseFloat on digits with an optional decimal part.  The number is held as
\* its whole part and the significant digits of its fraction, so that 1.50 and
\* 1.5 are one number and 1.05 is another.
ParseFloatDecimal(text) ==
  LET whole == DigitRun(text)
      rest  == SubSeq(text, Len(whole) + 1, Len(text))
  IN [ whole |-> DigitsValue(whole, 0),
       frac  |-> IF rest # <<>> /\ Head(rest) = "."
                 THEN StripTrailingZeros(DigitRun(Tail(rest))) ELSE <<>> ]

\* parseWeight that takes the number 0 for no number (a truthiness test).
parseWeightZeroIsNull(rawString) ==
  LET match == MatchNumber(rawString)
  IN IF match = <<>> THEN <<>>
     ELSE IF ParseFloatDecimal(match[1]) = [whole |-> 0, frac |-> <<>>] THEN <<>>
          ELSE << ParseFloatDecimal(match[1]) >>

\* parseWeight: << val >>, or <<>> for null (parseFloat of a match is never NaN).
parseWeight(rawString) ==
  LET match == MatchNumber(rawString)
  IN IF match = <<>> THEN <<>> ELSE << ParseFloatDecimal(match[1]) >>

\* The calls of onWeightUpdate the for loop of processData makes for lines.
RECURSIVE WeightUpdates(_)
WeightUpdates(lines) ==
  IF lines = <<>> THEN <<>>
  ELSE (IF TrimmedNotEmpty(Head(lines)) THEN parseWeight(Head(lines)) ELSE <<>>)
         \o WeightUpdates(Tail(lines))

\* processData that keeps no fragment for the next chunk.
KeptFragmentDropped(lines) == <<>>

\* lines.pop() || '' : the last piece of the split, kept for the next chunk.
KeptFragment(lines) == lines[Len(lines)]

\* The pieces of the split that are complete lines (lines after the pop).
CompleteLines(lines) == SubSeq(lines, 1, Len(lines) - 1)

\* The scale's example frame.
ExampleLine ==
  << "S", "T", ",", "G", "S", ",", "+", " ", "1", "2", "4", "0", "0", " ", "k", "g" >>

\* Characters of the texts put on the line.
WireAlphabet == { "0", "1", ".", " ", "k", "\r", "\n" }

\* The texts put on the line: each text up to MaxWireLen characters, and the
\* example frame with its terminator.
WireTexts ==
  UNION { [1..n -> WireAlphabet] : n \in 0..MaxWireLen }
    \cup { ExampleLine \o << "\r", "\n" >> }

\* A service whose read loop is about to read a text from the line.
InitFramer ==
  /\ ConsoleMounted
  /\ buffer = <<>>
  /\ wire \in WireTexts
  /\ delivered = <<>>
  /\ chunks = 0
  /\ emitted = <<>>

\* The next n characters of the line arrive as one chunk and processData frames
\* them (an empty chunk is not handed on, and processData would leave the
\* buffer as it is and find no line).
ChunkRead(n) ==
  LET chunk == SubSeq(wire, 1, n)
      lines == SplitLines(buffer \o chunk)
  IN /\ n <= Len(wire)
     /\ wire' = SubSeq(wire, n + 1, Len(wire))
     /\ delivered' = delivered \o chunk
     /\ chunks' = IF n > 0 THEN chunks + 1 ELSE chunks
     /\ buffer' = KeptFragment(lines)
     /\ emitted' = emitted \o WeightUpdates(CompleteLines(lines))

\* The read loop receives a chunk; the callback is left out.
ReadChunk(n) ==
  /\ ChunkRead(n)
  /\ UNCHANGED << stabilityVars, manualVars, isConnected, isSimulating,
                  scaleService, services, serviceCall, mounted, draftVars,
                  material, printVars, storeVars, uiEffect, captureWeight >>

NextFramer == \E n \in 0..Len(ExampleLine) + 2 : ReadChunk(n)

\* The framing of ScaleService fed with every text in every chunking.
SpecFramer == InitFramer /\ [][NextFramer]_vars

\* ------------------------------------------------- the console's scale session

\* The texts a scale puts on the line of an opened port: two readings in whole
\* kg behind one another, and one reading with the two character terminator.
SessionTexts ==
  { << "1", "5", "0", "0", "0", "\n", "0", "\n" >>,
    << "2", "0", "0", "0", "0", "\r", "\n" >> }

\* The readings as the numbers handed to the callback (the session texts carry
\* whole numbers of kg only).
RECURSIVE Kilograms(_)
Kilograms(readings) ==
  IF readings = <<>> THEN <<>>
  ELSE << Head(readings).whole >> \o Kilograms(Tail(readings))

\* The services whose read loop waits in reader.read().
Reading == { i \in 1..Len(services) : services[i].reader = "locked" }

\* The services with a connect() call in flight.
Connecting == { i \in 1..Len(services) : services[i].phase # "idle" }

\* A port has been opened: its scale starts a text, and the read loop's
\* pipeline starts empty.
LineStarts ==
  /\ wire' \in SessionTexts
  /\ delivered' = <<>>
  /\ chunks' = 0
  /\ emitted' = <<>>
  /\ UNCHANGED buffer

\* handleConnectScale without the test of scaleService.current.
HandleConnectScaleUnguarded ==
  /\ SourceButtonsRendered
  /\ Len(services) < MaxServices
  /\ \E supported \in BOOLEAN :
       LET r == connectCalled(NewScaleService, supported)
       IN /\ services' = Append(services, r.service)
          /\ serviceCall' = [ name |-> "connect", ops |-> r.ops, outcome |-> r.outcome ]
          /\ uiEffect' = IF r.outcome = "rejected" THEN "alert: connect" ELSE "none"
  /\ scaleService' = Len(services) + 1
  /\ buffer' = <<>>
  /\ UNCHANGED << isConnected, isSimulating, mounted, stabilityVars, manualVars,
                  draftVars, material, printVars, storeVars, captureWeight,
                  wire, delivered, chunks, emitted >>

\* handleConnectScale up to its await: it returns at once when a service
\* object is held; otherwise a service is constructed (its buffer empty) and
\* connect() is called, which throws where the platform has no serial support
\* (the alert of the catch block).
HandleConnectScale ==
  /\ SourceButtonsRendered
  /\ \/ /\ scaleService # 0
        /\ uiEffect' = "connect: ignored"
        /\ UNCHANGED << stabilityVars, manualVars, scaleVars, draftVars, material,
                        printVars, storeVars, captureWeight >>
     \/ /\ scaleService = 0
        /\ Len(services) < MaxServices
        /\ \E supported \in BOOLEAN :
             LET r == connectCalled(NewScaleService, supported)
             IN /\ services' = Append(services, r.service)
                /\ serviceCall' = [ name |-> "connect", ops |-> r.ops,
                                    outcome |-> r.outcome ]
                /\ uiEffect' = IF r.outcome = "rejected" THEN "alert: connect"
                               ELSE "none"
        /\ scaleService' = Len(services) + 1
        /\ buffer' = <<>>
        /\ UNCHANGED << isConnected, isSimulating, mounted, stabilityVars,
                        manualVars, draftVars, material, printVars, storeVars,
                        captureWeight, wire, delivered, chunks, emitted >>

\* The device request of a connect() the handler awaits settles.  Granted, the
\* call goes on to open the port; declined, it returns false and the handler
\* sets isConnected to false and switches the simulation off, with no alert.
RequestPortSettles(granted) ==
  \E i \in 1..Len(services) :
    /\ services[i].phase = "requestPort"
    /\ ServiceStep(i, connectPortSettled(services[i], granted), "connect")
    /\ isConnected' = IF granted THEN isConnected ELSE FALSE
    /\ isSimulating' = IF granted THEN isSimulating ELSE FALSE
    /\ uiEffect' = "none"
    /\ UNCHANGED << scaleService, mounted, stabilityVars, manualVars, draftVars,
                    material, printVars, storeVars, captureWeight, framerVars >>

\* The handler's continuation that leaves the simulation running.
PortOpenSettlesKeepsSimulation(opened) ==
  \E i \in 1..Len(services) :
    /\ services[i].phase = "open"
    /\ ServiceStep(i, connectOpenSettled(services[i], opened), "connect")
    /\ isConnected' = opened
    /\ isSimulating' = isSimulating
    /\ IF opened THEN LineStarts ELSE UNCHANGED framerVars
    /\ uiEffect' = "none"
    /\ UNCHANGED << scaleService, mounted, stabilityVars, manualVars, draftVars,
                    material, printVars, storeVars, captureWeight >>

\* The open() of a connect() the handler awaits settles: the call returns true
\* with the read loop started, or false, and the handler sets isConnected to
\* what it returned and switches the simulation off.
PortOpenSettles(opened) ==
  \E i \in 1..Len(services) :
    /\ services[i].phase = "open"
    /\ ServiceStep(i, connectOpenSettled(services[i], opened), "connect")
    /\ isConnected' = opened
    /\ isSimulating' = FALSE
    /\ IF opened THEN LineStarts ELSE UNCHANGED framerVars
    /\ uiEffect' = "none"
    /\ UNCHANGED << scaleService, mounted, stabilityVars, manualVars, draftVars,
                    material, printVars, storeVars, captureWeight >>

\* A read loop receives the next n characters as one chunk: processData frames
\* them and hands each reading to the weight callback, whose closure holds the
\* useManualWeight of the render that created it (false: the connect button is
\* only rendered with manual entry off).  The setter of an unmounted component
\* does nothing.
ReadLoopReads(n) ==
  LET lines == SplitLines(buffer \o SubSeq(wire, 1, n))
      ws == Kilograms(WeightUpdates(CompleteLines(lines)))
  IN /\ Reading # {}
     /\ ChunkRead(n)
     /\ IF mounted /\ ws # <<>> THEN SetCurrentWeights(ws)
        ELSE UNCHANGED stabilityVars
     /\ uiEffect' = "none"
     /\ UNCHANGED << manualVars, isConnected, isSimulating, scaleService, services,
                     serviceCall, mounted, draftVars, material, printVars,
                     storeVars, captureWeight >>

\* reader.read() reports the end of the stream, or rejects: the loop of the
\* service at place i is left and its finally releases the reader.  Neither
\* isReading nor the console's isConnected is touched.
ReadLoopEnds(i) ==
  /\ i \in Reading
  /\ services' = [services EXCEPT ![i].reader = "released"]
  /\ uiEffect' = "none"
  /\ UNCHANGED << stabilityVars, manualVars, isConnected, isSimulating,
                  scaleService, serviceCall, mounted, framerVars, draftVars,
                  material, printVars, storeVars, captureWeight >>

\* The weight sources, the stability detector and the manual entry switch of
\* the console, from mount to teardown (no capture is made).
NextSources ==
  \/ StabilityTimeout
  \/ ToggleManualEntry
  \/ ToggleSimulation
  \/ \E w \in Weights : SimulationTick(w)
  \/ HandleConnectScale
  \/ \E granted \in BOOLEAN : RequestPortSettles(granted)
  \/ \E opened \in BOOLEAN : PortOpenSettles(opened)
  \/ \E n \in 0..Len(wire) : ReadLoopReads(n)
  \/ \E i \in 1..Len(services) : ReadLoopEnds(i)
  \/ Unmount

SpecSources == Init /\ [][NextSources]_vars

\* The same with the browser's timers fair: a pending timeout fires.
SpecSourcesFair == SpecSources /\ WF_vars(StabilityTimeout)

\* The console with every source and control, while it is mounted.
NextFull ==
  \/ Next
  \/ NextManual
  \/ HandleConnectScale
  \/ \E granted \in BOOLEAN : RequestPortSettles(granted)
  \/ \E opened \in BOOLEAN : PortOpenSettles(opened)
  \/ \E n \in 0..Len(wire) : ReadLoopReads(n)
  \/ \E i \in 1..Len(services) : ReadLoopEnds(i)

SpecFull == Init /\ [][NextFull]_vars

\* ------------------------------------------------- ScaleService on its own

\* The service under test: the one constructed last.
Tested == Len(services)

\* A caller constructs a service once the one before it is at rest.
SessionConstruct ==
  /\ Len(services) < MaxServices
  /\ Reading = {} /\ Connecting = {}
  /\ services' = Append(services, NewScaleService)
  /\ buffer' = <<>>
  /\ uiEffect' = "none"
  /\ UNCHANGED << stabilityVars, manualVars, isConnected, isSimulating,
                  scaleService, serviceCall, mounted, draftVars, material,
                  printVars, storeVars, captureWeight, wire, delivered, chunks,
                  emitted >>

\* What a call changes besides the service.
SessionRest ==
  /\ uiEffect' = "none"
  /\ UNCHANGED << stabilityVars, manualVars, isConnected, isSimulating,
                  scaleService, mounted, draftVars, material, printVars,
                  storeVars, captureWeight >>

\* The caller calls connect() of a service with no connect() in flight.
SessionConnect(supported) ==
  /\ services # <<>>
  /\ services[Tested].phase = "idle"
  /\ ServiceStep(Tested, connectCalled(services[Tested], supported), "connect")
  /\ SessionRest
  /\ UNCHANGED framerVars

\* The device request settles.
SessionPortSettles(granted) ==
  /\ services # <<>>
  /\ services[Tested].phase = "requestPort"
  /\ ServiceStep(Tested, connectPortSettled(services[Tested], granted), "connect")
  /\ SessionRest
  /\ UNCHANGED framerVars

\* The open() settles (open() of a port that is open rejects).
SessionOpenSettles(opened) ==
  /\ services # <<>>
  /\ services[Tested].phase = "open"
  /\ opened => services[Tested].port = "closed" /\ Len(buffer) <= MaxFragment
  /\ ServiceStep(Tested, connectOpenSettled(services[Tested], opened), "connect")
  /\ SessionRest
  /\ IF opened THEN LineStarts ELSE UNCHANGED framerVars

\* The caller calls disconnect().
SessionDisconnect(pipeFails) ==
  /\ services # <<>>
  /\ ServiceStep(Tested, disconnect(services[Tested], pipeFails), "disconnect")
  /\ SessionRest
  /\ UNCHANGED framerVars

NextSession ==
  \/ SessionConstruct
  \/ \E supported \in BOOLEAN : SessionConnect(supported)
  \/ \E granted \in BOOLEAN : SessionPortSettles(granted)
  \/ \E opened \in BOOLEAN : SessionOpenSettles(opened)
  \/ \E pipeFails \in BOOLEAN : SessionDisconnect(pipeFails)
  \/ \E n \in 0..Len(wire) : ReadLoopReads(n)
  \/ \E i \in 1..Len(services) : ReadLoopEnds(i)

\* ScaleService driven through its public methods in every order.
SpecSession == Init /\ [][NextSession]_vars

\* ----------------------------------------------------------------- claims

ClosedIndexes == { i \in 1..Len(ledger) : ledger[i].status = CLOSED }

OpenIndexes == { i \in 1..Len(ledger) : ledger[i].status = OPEN }

OutboundFields == { "outboundWeight", "outboundTime", "outboundImage" }

FinancialFields == { "netWeight", "ratePerKg", "totalCost" }

\* The ledger record with the id of the matched ticket, <<>> when there is none.
MatchedRecord(tickets) ==
  IF matchedTicket = <<>> \/ FindIndexById(tickets, matchedTicket[1].id) = 0 THEN <<>>
  ELSE << tickets[FindIndexById(tickets, matchedTicket[1].id)] >>

\* C1: once a ledger record is CLOSED, no later step changes any field of it
\* (it keeps its place in the ledger and stays identical).
C1_ClosedImmutable ==
  [][ \A i \in ClosedIndexes : i <= Len(ledger') /\ ledger'[i] = ledger[i] ]_vars

\* C2: a capture requested while the state is MOTION and manual entry is off is
\* answered with the unstable alert only: mode, processing, matched ticket,
\* detected plate and ledger are unchanged and no identifier call is started.
C2_UnstableCaptureRejected ==
  [][ (HandleCapture /\ ~isStable /\ ~useManualWeight)
        => /\ uiEffect' = "alert: unstable"
           /\ UNCHANGED << mode, processing, matchedTicket, detectedPlate, ledger,
                           identInFlight >> ]_vars

C2_Witness ==
  /\ uiEffect = "alert: unstable"
  /\ ~isStable /\ ~useManualWeight
  /\ mode = "IDLE" /\ ~processing /\ identInFlight = 0

\* C3: while an identifier call is pending or a draft awaits its decision, no
\* step is a capture: no identifier call is started (at most one is ever in
\* flight), no capture alert is raised, and a draft is not put back to RESOLVING
\* or thrown away by a failed capture.
C3_NoCaptureWhileBusy ==
  [][ (processing \/ mode # "IDLE")
        => /\ identInFlight' <= identInFlight
           /\ identInFlight' <= 1
           /\ uiEffect' # "alert: unstable"
           /\ (~processing => ~processing' /\ uiEffect' # "alert: error") ]_vars

C3_Witness ==
  \/ processing /\ identInFlight = 1 /\ ledger # <<>>
  \/ ~processing /\ mode = "OUTBOUND" /\ matchedTicket # <<>> /\ printTimers = <<>>

\* C4: when the identifier settles with plate p, the console enters OUTBOUND with
\* an OPEN ledger ticket of plate p attached if and only if p is not the sentinel
\* and the ledger holds such a ticket; otherwise it enters INBOUND with plate p
\* and no matched ticket.
C4_RoutingByOpenTicket ==
  [][ \A resp \in AiResponses :
        IdentifySettles(resp) =>
          LET p == identifyTruck(resp).licensePlate
              held == { i \in OpenIndexes : ledger[i].licensePlate = p }
          IN /\ detectedPlate' = p
             /\ IF p # UNKNOWN /\ held # {}
                THEN /\ mode' = "OUTBOUND"
                     /\ \E i \in held : matchedTicket' = << ledger[i] >>
                ELSE /\ mode' = "INBOUND"
                     /\ matchedTicket' = <<>> ]_vars

C4_Witness ==
  /\ mode = "OUTBOUND" /\ ~processing
  /\ matchedTicket # <<>>
  /\ matchedTicket[1].licensePlate = detectedPlate
  /\ \E i \in OpenIndexes : ledger[i] = matchedTicket[1]
  /\ \E i \in ClosedIndexes : ledger[i].licensePlate = detectedPlate

\* C5: the identifier never rejects; on a failure (the call throws, no text, no
\* plate in the answer) it resolves to UNKNOWN with confidence 0; and whenever it
\* resolves to UNKNOWN the console enters INBOUND with no alert.
C5_IdentifierFailureIsInbound ==
  [][ \A resp \in AiResponses :
        IdentifySettles(resp) =>
          /\ ~identifyTruck(resp).raised
          /\ resp.kind # "json" =>
               /\ identifyTruck(resp).licensePlate = UNKNOWN
               /\ identifyTruck(resp).confidence = 0
          /\ identifyTruck(resp).licensePlate = UNKNOWN =>
               /\ mode' = "INBOUND"
               /\ detectedPlate' = UNKNOWN
               /\ matchedTicket' = <<>>
               /\ ~processing'
               /\ uiEffect' = "none" ]_vars

C5_Witness ==
  /\ mode = "INBOUND" /\ ~processing
  /\ detectedPlate = UNKNOWN
  /\ \E i \in OpenIndexes : ledger[i].licensePlate = UNKNOWN

\* C6: confirming an inbound draft appends exactly one record, OPEN, with an id
\* no earlier record has and no outbound or financial field; the earlier records
\* are unchanged and the console is back in IDLE.
C6_InboundConfirmAppendsOne ==
  [][ ProcessInbound =>
        /\ Len(ledger') = Len(ledger) + 1
        /\ \A i \in 1..Len(ledger) : ledger'[i] = ledger[i]
        /\ LET new == ledger'[Len(ledger')]
           IN /\ new.status = OPEN
              /\ \A i \in 1..Len(ledger) : ledger[i].id # new.id
              /\ DOMAIN new \cap (OutboundFields \cup FinancialFields) = {}
        /\ mode' = "IDLE" ]_vars

C6_Witness ==
  /\ Len(ledger) = 2
  /\ ledger[2].status = OPEN
  /\ ledger[1].id # ledger[2].id
  /\ mode = "IDLE" /\ clock = ledger[2].inboundTime

\* C7: every CLOSED ticket has netWeight equal to the absolute difference of its
\* inbound and outbound weights, hence not negative.
C7_NetWeightAbsolute ==
  \A i \in ClosedIndexes :
    LET t == ledger[i]
    IN /\ t.netWeight = IF t.inboundWeight >= t.outboundWeight
                        THEN t.inboundWeight - t.outboundWeight
                        ELSE t.outboundWeight - t.inboundWeight
       /\ t.netWeight >= 0

C7_Witness ==
  \E i \in ClosedIndexes : ledger[i].inboundWeight < ledger[i].outboundWeight

\* C8: every CLOSED ticket has totalCost = netWeight x 0.25 (25 cents per kg);
\* an inbound of 20000 closed at 15000 has netWeight 5000 and totalCost 1250.00.
C8_TotalCostAtFixedRate ==
  \A i \in ClosedIndexes :
    LET t == ledger[i]
    IN /\ t.ratePerKg = 25
       /\ t.totalCost = t.netWeight * 25
       /\ (t.inboundWeight = 20000 /\ t.outboundWeight = 15000)
            => (t.netWeight = 5000 /\ t.totalCost = 125000)

C8_Witness ==
  \E i \in ClosedIndexes :
    ledger[i].inboundWeight = 20000 /\ ledger[i].outboundWeight = 15000

\* C9: a ledger ticket has each of its outbound and financial fields if and only
\* if its status is CLOSED.
C9_OutboundFieldsIffClosed ==
  \A i \in 1..Len(ledger) :
    \A f \in OutboundFields \cup FinancialFields :
      (f \in DOMAIN ledger[i]) <=> (ledger[i].status = CLOSED)

C9_Witness ==
  /\ ClosedIndexes # {}
  /\ OpenIndexes # {}

\* C10: the outboundWeight written by an outbound confirm is the weight that is
\* current when the confirm is made.
C10_OutboundWeightAtConfirm ==
  [][ ProcessOutbound =>
        /\ MatchedRecord(ledger') # <<>>
        /\ MatchedRecord(ledger')[1].status = CLOSED
        /\ MatchedRecord(ledger')[1].outboundWeight = EffectiveWeight ]_vars

C10_Witness ==
  /\ mode = "OUTBOUND" /\ printTimers # <<>>
  /\ captureWeight # <<>>
  /\ MatchedRecord(ledger) # <<>>
  /\ MatchedRecord(ledger)[1].status = CLOSED
  /\ MatchedRecord(ledger)[1].outboundWeight # captureWeight[1]


\* C11: the inboundWeight of a created ticket is the weight taken at capture,
\* not the live weight at the inbound confirm (the claim as made).
C11_InboundWeightAtCapture ==
  [][ (ProcessInbound /\ captureWeight # <<>>)
        => ledger'[Len(ledger')].inboundWeight = captureWeight[1] ]_vars

\* C11, amended: the inboundWeight of a created ticket is the weight in effect
\* (the live reading, or the manual entry when the override is on) when the
\* inbound confirm runs.
C11_InboundWeightAtConfirm ==
  [][ ProcessInbound
        => /\ Len(ledger') = Len(ledger) + 1
           /\ ledger'[Len(ledger')].inboundWeight = EffectiveWeight ]_vars

\* A ticket was created last with an inbound weight other than the weight its
\* capture was accepted with.
C11_Witness ==
  /\ mode = "IDLE" /\ ~processing
  /\ captureWeight # <<>>
  /\ ledger # <<>>
  /\ ledger[Len(ledger)].status = OPEN
  /\ ledger[Len(ledger)].inboundTime = clock
  /\ ledger[Len(ledger)].inboundWeight # captureWeight[1]

\* C12: cancelling a draft returns to IDLE with no matched ticket and no
\* detected plate, changes no record and signals no print; as only the two
\* confirms ever write the ledger, the ledger after the cancel is the ledger
\* the capture found unless the operator confirmed in between.
C12_CancelDiscardsDraft ==
  [][ /\ Cancel => /\ mode' = "IDLE"
                   /\ matchedTicket' = <<>>
                   /\ detectedPlate' = <<>>
                   /\ ledger' = ledger
                   /\ uiEffect' # "print"
                   /\ UNCHANGED printVars
      /\ ledger' # ledger => ProcessInbound \/ ProcessOutbound ]_vars

\* An outbound or inbound draft was cancelled while the ledger holds an open
\* ticket and nothing was ever printed.
C12_Witness ==
  /\ uiEffect = "cancel"
  /\ mode = "IDLE" /\ matchedTicket = <<>> /\ detectedPlate = <<>>
  /\ OpenIndexes # {}
  /\ lastPrintedTicket = <<>> /\ printTimers = <<>>

\* C13: a confirm whose save fails leaves the draft, the matched ticket, the
\* ledger and the pending prints as they were; the controller is not in IDLE
\* and no print is signalled.
C13_SaveFailureKeepsDraft ==
  [][ (ProcessInboundSaveThrows \/ ProcessOutboundSaveThrows)
        => /\ UNCHANGED << mode, matchedTicket, detectedPlate, ledger, printVars >>
           /\ mode' # "IDLE"
           /\ uiEffect' # "print" ]_vars

\* The save of an outbound confirm has just failed with the draft in place.
C13_Witness ==
  /\ uiEffect = "throw: save"
  /\ mode = "OUTBOUND"
  /\ matchedTicket # <<>>
  /\ MatchedRecord(ledger) # <<>>
  /\ MatchedRecord(ledger)[1].status = OPEN

\* C14: an outbound confirm signals no print itself and arms exactly one
\* print timeout, with the CLOSED record already in the ledger; prints come
\* only from such a timeout, each timeout prints once, shows a CLOSED record
\* of the ledger and leaves the controller in IDLE.
C14_PrintOncePerClose ==
  [][ /\ ProcessOutbound
          => /\ printTimers' = Append(printTimers, useManualWeight)
             /\ uiEffect' # "print"
             /\ MatchedRecord(ledger') # <<>>
             /\ MatchedRecord(ledger')[1].status = CLOSED
             /\ lastPrintedTicket' = MatchedRecord(ledger')
      /\ Len(printTimers') > Len(printTimers) => ProcessOutbound
      /\ uiEffect' = "print"
          => /\ printTimers # <<>>
             /\ printTimers' = Tail(printTimers)
             /\ mode' = "IDLE" /\ matchedTicket' = <<>>
             /\ lastPrintedTicket' # <<>>
             /\ \E i \in ClosedIndexes : ledger'[i] = lastPrintedTicket'[1] ]_vars

\* The print of a close has been signalled and the controller is back in IDLE.
C14_Witness ==
  /\ uiEffect = "print"
  /\ mode = "IDLE"
  /\ printTimers = <<>>
  /\ lastPrintedTicket # <<>>
  /\ \E i \in ClosedIndexes : ledger[i] = lastPrintedTicket[1]

\* C15: ticket ids are pairwise distinct, and no step changes the id or the
\* inbound data of a record or removes a record.
C15_IdentityAndInboundDataKept ==
  [][ /\ \A i, j \in 1..Len(ledger') : i # j => ledger'[i].id # ledger'[j].id
      /\ \A i \in 1..Len(ledger) :
            /\ i <= Len(ledger')
            /\ ledger'[i].id = ledger[i].id
            /\ ledger'[i].licensePlate = ledger[i].licensePlate
            /\ ledger'[i].materialType = ledger[i].materialType
            /\ ledger'[i].inboundWeight = ledger[i].inboundWeight
            /\ ledger'[i].inboundTime = ledger[i].inboundTime
            /\ ledger'[i].inboundImage = ledger[i].inboundImage ]_vars

\* Two tickets are stored and the one created first has been closed.
C15_Witness ==
  /\ Len(ledger) = 2
  /\ ledger[1].status = CLOSED
  /\ ledger[1].id # ledger[2].id
  /\ ledger[1].inboundTime < ledger[1].outboundTime


\* C16: findOpenTicketByPlate("UNKNOWN") returns nothing whatever the store
\* holds.
C16_UnknownNeverMatches ==
  findOpenTicketByPlate(ledger, UNKNOWN) = <<>>

\* The store holds an OPEN ticket whose plate is the sentinel.
C16_Witness ==
  \E i \in OpenIndexes : ledger[i].licensePlate = UNKNOWN

\* C17: for a plate other than the sentinel the lookup returns nothing exactly
\* when no stored ticket is OPEN with that very plate, and otherwise returns
\* the record that is OPEN with that plate and has no such record before it.
C17_FirstOpenMatch ==
  \A p \in StoragePlates \ {UNKNOWN} :
    LET found == findOpenTicketByPlate(ledger, p)
    IN /\ found = <<>> <=> ~ \E i \in OpenIndexes : ledger[i].licensePlate = p
       /\ found # <<>> =>
            \E i \in OpenIndexes :
              /\ ledger[i] = found[1]
              /\ ledger[i].licensePlate = p
              /\ \A j \in OpenIndexes : ledger[j].licensePlate = p => i <= j

\* Two OPEN tickets share a plate, and the lookup returns the first of them.
C17_Witness ==
  /\ Len(ledger) >= 2
  /\ ledger[1].status = OPEN /\ ledger[2].status = OPEN
  /\ ledger[1].licensePlate = ledger[2].licensePlate
  /\ ledger[1].licensePlate # UNKNOWN
  /\ findOpenTicketByPlate(ledger, ledger[2].licensePlate) = << ledger[1] >>

\* C18: saving a ticket whose id is stored replaces that record where it is
\* and leaves every other record and the length as they were; saving one
\* whose id is not stored adds it at the end; either way exactly one record
\* has that id afterwards, it is the ticket saved, and saving it again changes
\* nothing.
C18_SaveIsUpsert ==
  [][ \A t \in StorageInputs :
        (StoreNew(t) \/ StoreExisting(t)) =>
          /\ IF t.id \in StoredIds
             THEN /\ Len(ledger') = Len(ledger)
                  /\ \A i \in 1..Len(ledger) :
                       ledger'[i] = IF ledger[i].id = t.id THEN t ELSE ledger[i]
             ELSE ledger' = ledger \o << t >>
          /\ Cardinality({ i \in 1..Len(ledger') : ledger'[i].id = t.id }) = 1
          /\ \E i \in 1..Len(ledger') : ledger'[i] = t
          /\ saveTicket(ledger', t) = ledger' ]_vars

\* The ticket stored first was saved again, closed, after a second ticket had
\* been added: it is still first and the second is still there.
C18_Witness ==
  /\ Len(ledger) = 2
  /\ ledger[1].id = 1 /\ ledger[1].status = CLOSED
  /\ ledger[2].id = 2


\* What processData emits and keeps when it is given text as a single chunk.
EmittedAtOnce(text) == WeightUpdates(CompleteLines(SplitLines(text)))

\* C19: however the text received so far was cut into chunks, the weights
\* emitted and the fragment kept are those of the same text given in one chunk.
C19_ChunkingIndependent ==
  /\ emitted = EmittedAtOnce(delivered)
  /\ buffer = KeptFragment(SplitLines(delivered))

\* A reading and the terminator run after it arrived one character per chunk.
C19_Witness ==
  /\ delivered = << "1", "0", "\r", "\n" >>
  /\ chunks = 4
  /\ emitted = << [whole |-> 10, frac |-> <<>>] >>
  /\ buffer = <<>>

\* The terminators of the text received.
TerminatorIndexes == { i \in 1..Len(delivered) : delivered[i] \in Terminators }

\* The complete lines of the text received, as pairs of their first and last
\* index: maximal terminator-free stretches that a terminator ends.
LineSpans ==
  { << a, b >> \in (1..Len(delivered)) \X (1..Len(delivered)) :
      /\ a <= b
      /\ \A i \in a..b : i \notin TerminatorIndexes
      /\ a = 1 \/ (a - 1) \in TerminatorIndexes
      /\ (b + 1) \in TerminatorIndexes }

IsDigit(c) == c \in { "0", "1", "2", "3", "4", "5", "6", "7", "8", "9" }

\* The lines among them that hold a digit.
DigitLineSpans == { sp \in LineSpans : \E i \in sp[1]..sp[2] : IsDigit(delivered[i]) }

\* The first numeric substring of the line sp, as the indexes of its first
\* digit, of the last digit of its whole part and of its last character.
FirstNumberSpan(sp) ==
  LET i == CHOOSE i \in sp[1]..sp[2] :
             IsDigit(delivered[i]) /\ \A h \in sp[1]..(i - 1) : ~IsDigit(delivered[h])
      j == CHOOSE j \in i..sp[2] :
             /\ \A h \in i..j : IsDigit(delivered[h])
             /\ j = sp[2] \/ ~IsDigit(delivered[j + 1])
      decimal == j + 2 <= sp[2] /\ delivered[j + 1] = "." /\ IsDigit(delivered[j + 2])
      k == IF decimal
           THEN CHOOSE k \in (j + 2)..sp[2] :
                  /\ \A h \in (j + 2)..k : IsDigit(delivered[h])
                  /\ k = sp[2] \/ ~IsDigit(delivered[k + 1])
           ELSE j
  IN << i, j, k >>

\* The digits d[a..b] read as a decimal numeral.
RECURSIVE NumeralValue(_, _)
NumeralValue(a, b) ==
  IF b < a THEN 0
  ELSE 10 * NumeralValue(a, b - 1)
         + (CHOOSE v \in 0..9 : Digits[v + 1] = delivered[b])

\* reading r equals the numeral whose span is n: same whole part, and the
\* same fraction digits up to zeros at the end.
EqualsNumeral(r, n) ==
  /\ r.whole = NumeralValue(n[1], n[2])
  /\ Len(r.frac) <= n[3] - n[2] - 1 \/ (r.frac = <<>> /\ n[3] = n[2])
  /\ \A h \in 1..(n[3] - n[2] - 1) :
        delivered[n[2] + 1 + h] = IF h <= Len(r.frac) THEN r.frac[h] ELSE "0"
  /\ r.frac = <<>> \/ r.frac[Len(r.frac)] # "0"

\* C20: the weights emitted are, in order, one per complete line that holds a
\* digit, each equal to the first numeric substring of its line; lines
\* without a digit emit nothing; the example frame yields 12400 and the line
\* "0" yields 0.
C20_OneReadingPerNumericLine ==
  /\ Len(emitted) = Cardinality(DigitLineSpans)
  /\ \A sp \in DigitLineSpans :
        LET k == Cardinality({ other \in DigitLineSpans : other[1] <= sp[1] })
        IN EqualsNumeral(emitted[k], FirstNumberSpan(sp))
  /\ delivered = ExampleLine \o << "\r", "\n" >>
        => emitted = << [whole |-> 12400, frac |-> <<>>] >>
  /\ delivered = << "0", "\n" >> => emitted = << [whole |-> 0, frac |-> <<>>] >>

\* The example frame has been received whole and its reading emitted.
C20_Witness ==
  /\ delivered = ExampleLine \o << "\r", "\n" >>
  /\ emitted = << [whole |-> 12400, frac |-> <<>>] >>
  /\ buffer = <<>>

\* C21: with manual entry off, every step that changes the reading leaves the
\* state MOTION with the quiet-period timeout armed anew, and MOTION is left only
\* by that timeout firing; so readings that keep changing before the timeout
\* fires keep the state MOTION.
C21_ChangeSetsMotion ==
  [][ ~useManualWeight' =>
        /\ currentWeight' # currentWeight => ~isStable' /\ stabilityTimer' = 1
        /\ (~isStable /\ isStable') => StabilityTimeout ]_vars

C21_Witness ==
  /\ mounted /\ ~useManualWeight
  /\ currentWeight = 15000 /\ emitted = << [whole |-> 15000, frac |-> <<>>] >>
  /\ ~isStable /\ stabilityTimer = 1

\* C22: with manual entry off, once the reading has stopped changing (equal
\* readings may keep arriving) and the timer is fair, the state becomes STABLE
\* and stays so.
C22_QuietReadingBecomesStable ==
  (<>[](mounted /\ ~useManualWeight) /\ <>[][currentWeight' = currentWeight]_vars)
    => <>[]isStable

C22_Witness ==
  /\ mounted /\ ~useManualWeight
  /\ isSimulating /\ currentWeight = 15000
  /\ isStable /\ stabilityTimer = 0

\* C23: while manual entry is on the state is STABLE and no quiet-period timeout
\* is pending, whatever the scale or the simulation delivers; switching manual
\* entry on clears a pending timeout.
C23_ManualAlwaysStable ==
  /\ [](useManualWeight => isStable /\ stabilityTimer = 0)
  /\ [][ (ToggleManualEntry /\ useManualWeight') =>
           isStable' /\ stabilityTimer' = 0 ]_vars

C23_Witness ==
  /\ mounted /\ useManualWeight
  /\ Reading # {} /\ currentWeight = 15000
  /\ isStable /\ stabilityTimer = 0

\* C24: at most one quiet-period timeout is pending at any time: a reading that
\* changes the weight before the timeout fires replaces it, the teardown of the
\* component clears it, and a timeout that fires is the one armed last, on a
\* mounted console with manual entry off.
C24_TimerCancelled ==
  /\ [](stabilityTimer <= 1 /\ (~mounted => stabilityTimer = 0))
  /\ [][ /\ Unmount => stabilityTimer' = 0
         /\ StabilityTimeout =>
              mounted /\ ~useManualWeight /\ stabilityTimer = 1 ]_vars

C24_Witness ==
  /\ ~mounted /\ ~useManualWeight
  /\ currentWeight = 20000 /\ ~isStable
  /\ stabilityTimer = 0

\* C25: connect() ends in an error in each of its failure cases (the platform has
\* no serial support, the device request is declined, the open fails); in none
\* of them does the call resolve, to true or to false.
C25_ConnectFailureRaises ==
  [][ /\ SessionConnect(FALSE) => serviceCall'.outcome = "rejected"
      /\ SessionPortSettles(FALSE) => serviceCall'.outcome = "rejected"
      /\ SessionOpenSettles(FALSE) => serviceCall'.outcome = "rejected" ]_vars

\* The services with a connect() in flight, an open port or a running read loop.
ActiveSessions ==
  { i \in 1..Len(services) :
      \/ services[i].phase # "idle"
      \/ services[i].port = "open"
      \/ services[i].reader = "locked" }

C27_SimulationExcludesConnection ==
  isSimulating =>
    /\ ~isConnected
    /\ \A i \in 1..Len(services) :
         services[i].port # "open" /\ services[i].reader # "locked"

C27_Witness ==
  /\ isConnected /\ ~isSimulating
  /\ scaleService = 0
  /\ Reading # {}
  /\ currentWeight = 15000

\* C28: disconnect() of a service that never connected starts no transport
\* operation and raises no error, and a failure of the decoding pipe while a
\* connected service is shut down does not make the call reject.
C28_DisconnectSafe ==
  [][ \A pipeFails \in BOOLEAN :
        SessionDisconnect(pipeFails) =>
          /\ (services[Tested].reader = "null" /\ services[Tested].phase = "idle")
               => serviceCall'.ops = {} /\ serviceCall'.outcome = "resolved"
          /\ (services[Tested].reader = "locked" /\ services[Tested].port = "open"
                /\ pipeFails)
               => serviceCall'.outcome = "resolved" ]_vars

\* C29: the weight callback is invoked only by a running read loop, once for
\* each reading decoded from a chunk and in their order (the console's weight
\* becomes the last of them); disconnect() and the end of the stream end the
\* loop, and with no loop running no reading is handed over.
C29_CallbackWhileReading ==
  [][ /\ \A pipeFails \in BOOLEAN :
           SessionDisconnect(pipeFails) => Tested \notin Reading'
      /\ \A i \in 1..Len(services) : ReadLoopEnds(i) => i \notin Reading'
      /\ (emitted' # emitted /\ emitted' # <<>>) =>
           /\ Reading # {}
           /\ \E n \in 0..Len(wire) :
                /\ ReadLoopReads(n)
                /\ emitted' = emitted \o WeightUpdates(CompleteLines(
                                SplitLines(buffer \o SubSeq(wire, 1, n))))
           /\ Len(emitted') > Len(emitted)
           /\ currentWeight' = emitted'[Len(emitted')].whole
      /\ Reading = {} => (emitted' = emitted \/ emitted' = <<>>) ]_vars

C29_Witness ==
  /\ serviceCall = [ name |-> "disconnect", ops |-> { "cancel", "close" },
                     outcome |-> "resolved" ]
  /\ Reading = {}
  /\ emitted = << [whole |-> 15000, frac |-> <<>>] >>
  /\ wire = << "0", "\n" >>
  /\ currentWeight = 15000

\* C30: a failed connection is recoverable by retry: a connect request made
\* when no connect() is in flight and no session is connected is carried out (a
\* service asks the transport for a device, or connect() throws for want of
\* serial support) and is not ignored.
C30_RetryIsCarriedOut ==
  [][ (HandleConnectScale /\ ActiveSessions = {} /\ Len(services) < MaxServices) =>
        /\ uiEffect' # "connect: ignored"
        /\ Len(services') = Len(services) + 1
        /\ serviceCall'.name = "connect" ]_vars

\* The weight sources under a transaction: every source, and captures up to the
\* draft (nothing is confirmed, so the ledger stays empty).
NextReadings ==
  \/ StabilityTimeout
  \/ ToggleSimulation
  \/ \E w \in Weights : SimulationTick(w)
  \/ HandleConnectScale
  \/ \E granted \in BOOLEAN : RequestPortSettles(granted)
  \/ \E opened \in BOOLEAN : PortOpenSettles(opened)
  \/ \E n \in 0..Len(wire) : ReadLoopReads(n)
  \/ \E i \in 1..Len(services) : ReadLoopEnds(i)
  \/ HandleCapture
  \/ \E resp \in AiResponses : IdentifySettles(resp)
  \/ Cancel

SpecReadings == Init /\ [][NextReadings]_vars

\* A transaction is under way: the identifier call is pending or a draft awaits
\* the operator's decision.
InTransaction == processing \/ mode # "IDLE"

\* C31: the reading pipeline is not suspended by a transaction: while the
\* identifier call is pending or a draft awaits its decision, the simulation
\* still ticks, and a reading delivered by the simulation or by the read loop
\* of a scale session becomes the current weight; a changed weight sets the
\* state to MOTION and arms the 800 ms timeout.
C31_ReadingsDuringTransaction ==
  /\ [](InTransaction /\ mounted /\ isSimulating =>
          \A w \in Weights : ENABLED SimulationTick(w))
  /\ [][ InTransaction =>
           /\ \A w \in Weights : SimulationTick(w) =>
                /\ currentWeight' = w
                /\ w # currentWeight => ~isStable' /\ stabilityTimer' = 1
           /\ (mounted /\ Len(emitted') > Len(emitted)) =>
                /\ currentWeight' = emitted'[Len(emitted')].whole
                /\ currentWeight' # currentWeight =>
                     ~isStable' /\ stabilityTimer' = 1 ]_vars

C31_Witness ==
  /\ mode = "INBOUND"
  /\ Reading # {}
  /\ captureWeight = << 0 >>
  /\ currentWeight = 15000
  /\ emitted # <<>>
  /\ ~isStable

\* The delayed print and reset that fires next was armed by the confirmation of
\* the outbound draft on screen.
OwnPrintTimeout ==
  /\ PrintTimeout
  /\ mode = "OUTBOUND"
  /\ matchedTicket # <<>>
  /\ lastPrintedTicket # <<>>
  /\ lastPrintedTicket[1].id = matchedTicket[1].id

\* C32: a draft is left only through the operator's confirm or cancel of that
\* same draft (an outbound draft disappears with the delayed reset its own
\* confirmation armed), and no delayed reset left over from an earlier
\* transaction fires while a later one is resolving or awaits its decision.
C32_DraftLeftByItsOwnDecision ==
  [][ /\ (mode \in { "INBOUND", "OUTBOUND" } /\ mode' # mode) =>
           ProcessInbound \/ Cancel \/ OwnPrintTimeout
      /\ (PrintTimeout /\ InTransaction) => OwnPrintTimeout ]_vars

InboundFields == { "id", "licensePlate", "materialType", "inboundWeight",
                   "inboundTime", "inboundImage" }

\* C33: the controller holds a matched ticket exactly when its mode is
\* OUTBOUND, and while it holds one the ledger record with that id is OPEN and
\* has the inbound fields of the held reference.
C33_MatchedTicketIsOpenRecord ==
  /\ matchedTicket # <<>> <=> mode = "OUTBOUND"
  /\ matchedTicket # <<>> =>
       /\ MatchedRecord(ledger) # <<>>
       /\ MatchedRecord(ledger)[1].status = OPEN
       /\ \A f \in InboundFields :
            MatchedRecord(ledger)[1][f] = matchedTicket[1][f]

\* C34: every weight written to a ticket is usable at the moment it is
\* recorded: when an inbound or an outbound confirmation stores its weight, the
\* state is STABLE or manual entry is on.
C34_RecordedWeightUsable ==
  [][ (ProcessInbound \/ ProcessOutbound) => (isStable \/ useManualWeight) ]_vars

\* C35: the ledger never holds two OPEN tickets with the same plate, the plate
\* UNKNOWN apart.
C35_OneOpenTicketPerPlate ==
  \A i, j \in OpenIndexes :
    (i # j /\ ledger[i].licensePlate = ledger[j].licensePlate) =>
      ledger[i].licensePlate = UNKNOWN

UnknownIndexes == { i \in 1..Len(ledger) : ledger[i].licensePlate = UNKNOWN }

\* C36: a ticket with plate UNKNOWN is never matched by a capture (the matched
\* ticket never has that plate) and stays as it is, OPEN, in every later
\* state; a capture resolved to UNKNOWN opens an inbound draft, whose
\* confirmation with that plate adds a further OPEN ticket.
C36_UnknownNeverMatched ==
  /\ [](matchedTicket # <<>> => matchedTicket[1].licensePlate # UNKNOWN)
  /\ [](\A i \in UnknownIndexes : ledger[i].status = OPEN)
  /\ [][ \A i \in UnknownIndexes :
           i <= Len(ledger') /\ ledger'[i] = ledger[i] ]_vars
  /\ [][ \A resp \in AiResponses :
           (IdentifySettles(resp) /\ detectedPlate' = UNKNOWN) =>
             mode' = "INBOUND" /\ matchedTicket' = <<>> ]_vars
  /\ [][ (ProcessInbound /\ detectedPlate \in { <<>>, UNKNOWN }) =>
           /\ Len(ledger') = Len(ledger) + 1
           /\ ledger'[Len(ledger')].licensePlate = UNKNOWN
           /\ ledger'[Len(ledger')].status = OPEN ]_vars

C36_Witness ==
  /\ Len(ledger) = 2
  /\ UnknownIndexes = { 1, 2 }
  /\ OpenIndexes = { 1, 2 }
  /\ ledger[1].id # ledger[2].id
  /\ mode = "INBOUND"
  /\ detectedPlate = UNKNOWN

\* C37: every inbound weight and every outbound weight stored in the ledger is
\* non-negative.
C37_StoredWeightsNonNegative ==
  \A i \in 1..Len(ledger) :
    /\ ledger[i].inboundWeight >= 0
    /\ "outboundWeight" \in DOMAIN ledger[i] => ledger[i].outboundWeight >= 0

\* disconnect() has just returned on a service whose connect() is still
\* pending (the device request or the open has not settled).
DisconnectedWhilePending ==
  /\ services # <<>>
  /\ serviceCall.name = "disconnect"
  /\ services[Tested].phase # "idle"

\* C38: a disconnect() issued while connect() is pending keeps that session
\* from reading: the step after it neither opens the transport nor starts the
\* read loop nor hands a reading to the weight callback.
C38_DisconnectStopsPendingConnect ==
  [][ DisconnectedWhilePending =>
        /\ services'[Tested].port # "open"
        /\ Tested \notin Reading'
        /\ Len(emitted') <= Len(emitted) ]_vars

\* C39: disconnect() called on a service whose reader has been released (the
\* read loop ended on the end of the stream, or a disconnect() completed
\* before) and with no connect() in flight raises no error and leaves no open
\* transport.
C39_DisconnectAfterLoopEnded ==
  [][ \A pipeFails \in BOOLEAN :
        ( /\ SessionDisconnect(pipeFails)
          /\ services[Tested].reader = "released"
          /\ services[Tested].phase = "idle" ) =>
          /\ serviceCall'.outcome = "resolved"
          /\ services'[Tested].port # "open" ]_vars

\* The same with the identifier call completing: the promise handleCapture
\* awaits settles (identifyTruck resolves on every path of its own).
SpecReadingsFair ==
  SpecReadings /\ WF_vars(\E resp \in AiResponses : IdentifySettles(resp))

\* C40: every accepted capture leaves RESOLVING: the processing flag is set
\* exactly while an identifier call is pending, the completion of the call
\* clears it whatever the answer, and with calls completing a set flag is
\* always cleared; an accepted capture whose frame snapshot fails ends in the
\* same step with the flag clear, mode IDLE, no draft, no identifier call
\* started, the error alert, and the ledger unchanged.
C40_CaptureLeavesResolving ==
  /\ [](processing <=> identInFlight > 0)
  /\ [][ \A resp \in AiResponses : IdentifySettles(resp) => ~processing' ]_vars
  /\ [][ (HandleCapture /\ UsableWeight /\ identInFlight' = identInFlight) =>
           /\ ~processing'
           /\ mode' = "IDLE"
           /\ matchedTicket' = <<>>
           /\ detectedPlate' = <<>>
           /\ uiEffect' = "alert: error"
           /\ ledger' = ledger ]_vars
  /\ processing ~> ~processing

C40_Witness ==
  /\ uiEffect = "alert: error"
  /\ ~processing
  /\ mode = "IDLE"
  /\ identInFlight = 0
  /\ isStable
  /\ currentWeight = 15000

====
